---- MODULE Spec2Model ----
(***************************************************************************)
(* A model of the letsencrypt client:                                      *)
(*   - the manual plugin's Authenticator (src/letsencrypt/plugins/         *)
(*     manual.py): prepare, perform, _perform_single, cleanup and          *)
(*     _test_mode_busy_wait;                                               *)
(*   - the SNI challenge driver (src/client-webserver/sni_challenge.py):   *)
(*     main, perform_sni_cert_challenge, cleanup, remove_files;            *)
(*   - the command line (src/letsencrypt/cli.py): the Actions of -d, -w    *)
(*     and --webroot-map, parse_args, handle_csr and set_by_cli.           *)
(* Each part has its own specification over the one set of variables; the  *)
(* variables of the other parts keep their initial values.                 *)
(***************************************************************************)
EXTENDS Integers, Sequences, FiniteSets, TLC

(***************************************************************************)
(* Bounds of the model.                                                    *)
(***************************************************************************)
\* longest challenge list handed to the manual Authenticator
MaxBatch == 2
\* longest challenge list handed to perform_sni_cert_challenge
MaxSniBatch == 2

(***************************************************************************)
(* The state of the manual Authenticator (Part 1).                         *)
(***************************************************************************)
VARIABLES
    m_testMode,    \* self.conf("test-mode")
    m_httpd,       \* self._httpd
    m_rootExists,  \* whether the directory self._root exists
    m_files,       \* ~/.well-known/acme-challenge/: file name -> content
    m_last,        \* the last call made on the plugin and how it ended
    m_noninteractive  \* self.config.noninteractive_mode

m_vars == <<m_testMode, m_httpd, m_rootExists, m_files, m_last,
            m_noninteractive>>

\* the state of the SNI challenge driver (Part 2)
VARIABLES
    s_pc,          \* per process: the statement it is at
    s_chall,       \* per process: listSNITuple
    s_i,           \* per process: the index of the running for loop
    s_addresses,   \* per process: the local list addresses
    s_ret,         \* per process: what perform_sni_cert_challenge returned
    s_dirty,       \* per process: configurator edits neither saved nor reverted
    s_did,         \* per process, history: what the process has done so far
    s_cleanups,    \* per process, history: the number of calls of cleanup
    s_diskTemp,    \* configuration edits saved as a reversible checkpoint
    s_diskPerm,    \* configuration edits saved permanently
    s_certConf,    \* CHOC_CERT_CONF: the extension its "=critical, DER:" line holds
    s_certFiles,   \* getChocCertFile(nonce) for each nonce: the extension in it
    s_chalConf     \* APACHE_CHALLENGE_CONF: its content

s_vars == <<s_pc, s_chall, s_i, s_addresses, s_ret, s_dirty, s_did, s_cleanups,
            s_diskTemp, s_diskPerm, s_certConf, s_certFiles, s_chalConf>>

\* the state of one call of Authenticator._test_mode_busy_wait (Part 3)
VARIABLES
    w_pc,          \* "idle", "waiting" (inside the while loop) or "connected"
    w_port,        \* the argument port
    w_elapsed,     \* seconds slept so far, one per iteration
    w_listening,   \* whether something accepts connections on the port
    w_socks        \* sockets created and not yet closed

w_vars == <<w_pc, w_port, w_elapsed, w_listening, w_socks>>

\* the state of one run of HelpfulArgumentParser.parse_args (Part 4)
VARIABLES
    c_pc,          \* "flags" (argparse is going through the command line),
                   \* "refused" (an Action raised), "returned" or "raised"
    c_error,       \* the exception parse_args raised, None when none
    c_verb,        \* self.verb
    c_detect,      \* self.detect_defaults
    c_line,        \* history: the flags processed so far, in order
    c_domains,     \* parsed_args.domains
    c_webroot_path,  \* parsed_args.webroot_path
    c_webroot_map,   \* parsed_args.webroot_map: domain -> path, NoPath if absent
    c_dbw,         \* WebrootPathProcessor.domain_before_webroot
    c_user,        \* history: what the command line sets of the options
    c_opts,        \* the other attributes of parsed_args
    c_before       \* history: webroot_path and webroot_map before the last flag

c_vars == <<c_pc, c_error, c_verb, c_detect, c_line, c_domains, c_webroot_path,
            c_webroot_map, c_dbw, c_user, c_opts, c_before>>

\* the state of set_by_cli (Part 5)
VARIABLES
    d_args,        \* reconstructed_args: what main was called with
    d_detector,    \* set_by_cli.detector
    d_last         \* the last call of set_by_cli: its argument and its result

d_vars == <<d_args, d_detector, d_last>>

\* the state of the parser while __init__ determines the verb (Part 6)
VARIABLES
    v_given,       \* history: the args __init__ was called with
    v_args,        \* self.args
    v_verb         \* self.verb

v_vars == <<v_given, v_args, v_verb>>

(***************************************************************************)
(* Part 1: the manual Authenticator.                                       *)
(***************************************************************************)
Domains == {"a.example", "b.example"}
Tokens == {"tokA", "tokB"}

\* the annotated challenges (achalls) of the model, each a domain and its
\* challenge token; a list may name the same one twice
AChalls ==
    {[domain |-> "a.example", token |-> "tokA"],
     [domain |-> "b.example", token |-> "tokB"]}

\* the account key's thumbprint, the second half of every key authorization
Thumbprint == "thumb"

\* content of a file that does not exist
NoFile == <<>>

\* value of self._httpd when no process was started
None == "None"

\* what the environment does to one challenge of a perform call: the file
\* write succeeds and self-verification passes, the write succeeds and
\* self-verification fails, or writing the file raises IOError
EnvOutcomes == {"ok", "verify_fail", "io_error"}

\* all lists over S of length at most n
RECURSIVE ListsUpTo(_, _)
ListsUpTo(S, n) ==
    IF n = 0 THEN {<<>>}
    ELSE LET shorter == ListsUpTo(S, n - 1)
         IN shorter \cup {Append(l, x) : l \in {s \in shorter : Len(s) = n - 1}, x \in S}

\* achall.response_and_validation(): the response carries the key
\* authorization, and the validation is the key authorization text
\* token "." thumbprint, kept here as its three parts
ResponseAndValidation(achall) ==
    LET keyAuthorization == <<achall.token, ".", Thumbprint>>
    IN [response |-> [key_authorization |-> keyAuthorization],
        validation |-> keyAuthorization]

\* validation.split('.'): the parts between the dots
RECURSIVE SplitDot(_)
SplitDot(parts) ==
    IF parts = <<>> THEN <<>>
    ELSE IF Head(parts) = "." THEN SplitDot(Tail(parts))
    ELSE <<Head(parts)>> \o SplitDot(Tail(parts))

\* os.path.join(target_dir, target_name): the name of a challenge's
\* validation file, the part of its validation before the dot
TargetName(achall) == SplitDot(ResponseAndValidation(achall).validation)[1]

\* a mutant of PerformSingle: a failed self-verification fails the challenge
PerformSingle_VerifyFails(files, achall, env) ==
    LET rv == ResponseAndValidation(achall)
        target_name == TargetName(achall)
    IN IF env = "io_error" \/ env = "verify_fail"
       THEN [raised |-> TRUE, files |-> files,
             response |-> rv.response, warned |-> FALSE]
       ELSE [raised |-> FALSE,
             files |-> [files EXCEPT ![target_name] = rv.validation],
             response |-> rv.response, warned |-> FALSE]

\* Authenticator._perform_single(achall): writes the validation under the
\* name before the dot, self-verifies, warns on a failed self-verification
\* and returns the response either way
PerformSingle(files, achall, env) ==
    LET rv == ResponseAndValidation(achall)
        target_name == TargetName(achall)
    IN IF env = "io_error"
       THEN [raised |-> TRUE, files |-> files,
             response |-> rv.response, warned |-> FALSE]
       ELSE [raised |-> FALSE,
             files |-> [files EXCEPT ![target_name] = rv.validation],
             response |-> rv.response, warned |-> (env = "verify_fail")]

\* a mutant of PerformLoop: the responses are collected newest first
RECURSIVE PerformLoop_Prepend(_, _, _, _)
PerformLoop_Prepend(acc, achalls, env, k) ==
    IF k > Len(achalls) THEN acc
    ELSE LET one == PerformSingle(acc.files, achalls[k], env[k])
         IN IF one.raised
            THEN [acc EXCEPT !.raised = TRUE]
            ELSE PerformLoop_Prepend(
                     [raised |-> FALSE, files |-> one.files,
                      responses |-> <<one.response>> \o acc.responses,
                      warnings |-> Append(acc.warnings, one.warned)],
                     achalls, env, k + 1)

\* the loop of Authenticator.perform from its k-th challenge on
RECURSIVE PerformLoop(_, _, _, _)
PerformLoop(acc, achalls, env, k) ==
    IF k > Len(achalls) THEN acc
    ELSE LET one == PerformSingle(acc.files, achalls[k], env[k])
         IN IF one.raised
            THEN [acc EXCEPT !.raised = TRUE]
            ELSE PerformLoop(
                     [raised |-> FALSE, files |-> one.files,
                      responses |-> Append(acc.responses, one.response),
                      warnings |-> Append(acc.warnings, one.warned)],
                     achalls, env, k + 1)

\* the record of a call: the operation, its argument, how it ended
\* ("returned" or "raised"), and for perform the responses it built, for
\* each response whether the warning of a failed self-verification was
\* logged, and what the environment did to each challenge
Call(op, achalls, result, responses, warnings, env) ==
    [op |-> op, achalls |-> achalls, result |-> result,
     responses |-> responses, warnings |-> warnings, env |-> env]

NoCall == Call("none", <<>>, "returned", <<>>, <<>>, <<>>)

\* the challenge lists the model hands to perform and cleanup
BatchLists == ListsUpTo(AChalls, MaxBatch)

\* what the environment can do to a list of n challenges: nothing is
\* decided for the challenges after the one whose write raised
EnvChoices ==
    [n \in 0..MaxBatch |->
        {e \in [1..n -> EnvOutcomes] :
            \A k \in 1..n : e[k] = "io_error" => \A j \in (k+1)..n : e[j] = "ok"}]

\* Authenticator.__init__: a fresh temporary directory in test mode,
\* /tmp/letsencrypt (which may or may not exist) otherwise; no process
ManualInit ==
    /\ m_testMode \in BOOLEAN
    /\ m_noninteractive \in BOOLEAN
    /\ m_httpd = None
    /\ m_rootExists \in (IF m_testMode THEN {TRUE} ELSE BOOLEAN)
    /\ m_files = [t \in Tokens |-> NoFile]
    /\ m_last = NoCall

\* Authenticator.perform(achalls)
Perform ==
    \E achalls \in BatchLists :
      \E env \in EnvChoices[Len(achalls)] :
        LET start == [raised |-> FALSE, files |-> m_files, responses |-> <<>>,
                      warnings |-> <<>>]
            end == PerformLoop(start, achalls, env, 1)
        IN /\ m_files' = end.files
           /\ m_last' = Call("perform", achalls,
                             IF end.raised THEN "raised" ELSE "returned",
                             end.responses, end.warnings, env)
           /\ UNCHANGED <<m_testMode, m_noninteractive, m_httpd, m_rootExists>>
           /\ UNCHANGED <<s_vars, w_vars, c_vars, d_vars, v_vars>>

\* Authenticator.cleanup(achalls): nothing outside test mode; in test mode
\* the assertion on self._httpd, the termination of the process and the
\* removal of self._root
Cleanup ==
    /\ UNCHANGED <<s_vars, w_vars, c_vars, d_vars, v_vars>>
    /\ \E achalls \in BatchLists :
        IF ~m_testMode
        THEN /\ m_last' = Call("cleanup", achalls, "returned", <<>>, <<>>, <<>>)
             /\ UNCHANGED <<m_testMode, m_noninteractive, m_httpd, m_rootExists, m_files>>
        ELSE IF m_httpd = None
        THEN \* AssertionError: "cleanup() must be called after perform()"
             \* (with assertions compiled out, AttributeError on None.poll())
             /\ m_last' = Call("cleanup", achalls, "raised", <<>>, <<>>, <<>>)
             /\ UNCHANGED <<m_testMode, m_noninteractive, m_httpd, m_rootExists, m_files>>
        ELSE IF ~m_rootExists
        THEN \* shutil.rmtree of a directory that is gone raises OSError
             /\ m_last' = Call("cleanup", achalls, "raised", <<>>, <<>>, <<>>)
             /\ UNCHANGED <<m_testMode, m_noninteractive, m_httpd, m_rootExists, m_files>>
        ELSE /\ m_rootExists' = FALSE
             /\ m_last' = Call("cleanup", achalls, "returned", <<>>, <<>>, <<>>)
             /\ UNCHANGED <<m_testMode, m_noninteractive, m_httpd, m_files>>

\* prepare() that refuses every non-interactive run
prepare_IgnoresTestMode(noninteractive_mode, test_mode) ==
    IF noninteractive_mode THEN "raised" ELSE "returned"

\* the body of Authenticator.prepare(): errors.PluginError("Running manual
\* mode non-interactively is not supported") or a plain return
prepare(noninteractive_mode, test_mode) ==
    IF noninteractive_mode /\ ~test_mode THEN "raised" ELSE "returned"

\* Authenticator.prepare()
Prepare ==
    /\ m_last' = Call("prepare", <<>>, prepare(m_noninteractive, m_testMode),
                      <<>>, <<>>, <<>>)
    /\ UNCHANGED <<m_testMode, m_noninteractive, m_httpd, m_rootExists, m_files>>
    /\ UNCHANGED <<s_vars, w_vars, c_vars, d_vars, v_vars>>

ManualNext == Prepare \/ Perform \/ Cleanup

(***************************************************************************)
(* Part 2: the SNI challenge driver.  A process runs main: it calls        *)
(* perform_sni_cert_challenge on its challenge list and then cleanup on    *)
(* the same list.  The files live on the disk all processes share; each    *)
(* process has its own Configurator object.  A process moves one           *)
(* statement (one file or configurator operation) at a time.               *)
(***************************************************************************)
\* the processes: two invocations of main
Procs == {1, 2}

Nonces == {"nonce", "nonce2", "nonce3"}

\* the challenge tuples (addr, y, nonce, ext_oid) of the model, by their
\* address and nonce; the first two are the ones main builds
SniChalls ==
    {[addr |-> "example.com", nonce |-> "nonce"],
     [addr |-> "www.example.com", nonce |-> "nonce2"],
     [addr |-> "mail.example.com", nonce |-> "nonce3"]}

\* main's list challenges
MainChallenges ==
    <<[addr |-> "example.com", nonce |-> "nonce"],
      [addr |-> "www.example.com", nonce |-> "nonce2"]>>

\* the lists handed to perform_sni_cert_challenge: every challenge has a
\* nonce of its own
SniLists ==
    {l \in ListsUpTo(SniChalls, MaxSniBatch) :
        \A j, k \in 1..Len(l) : j # k => l[j].nonce # l[k].nonce}

\* an extension value: the process that generated it and the nonce of the
\* challenge it was generated for; NoExt where there is none
NoExt == <<0, "none">>
InitialExt == <<0, "initial">>

\* the content of APACHE_CHALLENGE_CONF: who wrote it, the nonce and the
\* address lists of its virtual hosts; NoConf when the file does not exist
NoConf == [by |-> 0, nonce |-> "", vhosts |-> <<>>]

\* default_addr
default_addr == "*:443"

\* what choose_virtual_host and make_server_sni_ready can answer for one
\* address: no vhost; a vhost (bound to _default_ or to addresses of its
\* own) that cannot be made SNI-ready; a vhost that is SNI-ready, with or
\* without an edit of the configuration
VhostOutcomes ==
    {[vhost |-> "none", ready |-> FALSE, edited |-> FALSE]}
    \cup [vhost : {"_default_", "addrs"}, ready : {TRUE}, edited : BOOLEAN]
    \cup [vhost : {"_default_", "addrs"}, ready : {FALSE}, edited : {FALSE}]

Done(p, what) == s_did' = [s_did EXCEPT ![p] = @ \cup what]

\* Configurator.save(title): the edits in memory become permanent
ConfigSave(p) ==
    /\ s_diskPerm' = s_diskPerm \cup s_dirty[p]
    /\ s_dirty' = [s_dirty EXCEPT ![p] = {}]
    /\ UNCHANGED s_diskTemp

\* Configurator.save(title, True): the edits in memory become a
\* reversible checkpoint
ConfigSaveReversible(p) ==
    /\ s_diskTemp' = s_diskTemp \cup s_dirty[p]
    /\ s_dirty' = [s_dirty EXCEPT ![p] = {}]
    /\ UNCHANGED s_diskPerm

\* Configurator.revert_config(): the reversible checkpoints are undone and
\* the edits in memory dropped
ConfigRevert(p) ==
    /\ s_diskTemp' = {}
    /\ s_dirty' = [s_dirty EXCEPT ![p] = {}]
    /\ UNCHANGED s_diskPerm

\* Configurator.find_directive("Include", APACHE_CHALLENGE_CONF) finds one
IncludeFound(p) == "include" \in (s_dirty[p] \cup s_diskTemp \cup s_diskPerm)

\* a mutant of SaveBefore: the precautionary save is left out
SaveBefore_Skipped(p) ==
    /\ s_pc[p] = "save_before"
    /\ s_pc' = [s_pc EXCEPT ![p] = IF s_chall[p] = <<>> THEN "modify" ELSE "vhost"]
    /\ UNCHANGED <<m_vars, w_vars, c_vars, d_vars, v_vars>>
    /\ UNCHANGED <<s_chall, s_i, s_addresses, s_ret, s_dirty, s_did, s_cleanups,
                   s_diskTemp, s_diskPerm, s_certConf, s_certFiles, s_chalConf>>

\* perform_sni_cert_challenge, line 231:
\* configurator.save("Before performing sni_challenge")
SaveBefore(p) ==
    /\ s_pc[p] = "save_before"
    /\ ConfigSave(p)
    /\ Done(p, {"save_before"})
    /\ s_pc' = [s_pc EXCEPT ![p] = IF s_chall[p] = <<>> THEN "modify" ELSE "vhost"]
    /\ UNCHANGED <<m_vars, w_vars, c_vars, d_vars, v_vars>>
    /\ UNCHANGED <<s_chall, s_i, s_addresses, s_ret, s_cleanups,
                   s_certConf, s_certFiles, s_chalConf>>

\* one round of the first loop, lines 235-251: choose_virtual_host,
\* make_server_sni_ready, the address list of the vhost
ChooseVhost(p) ==
    /\ s_pc[p] = "vhost"
    /\ \E o \in VhostOutcomes :
        IF o.vhost = "none"
        THEN \* return False
             /\ s_ret' = [s_ret EXCEPT ![p] = "False"]
             /\ s_pc' = [s_pc EXCEPT ![p] = "returned"]
             /\ UNCHANGED <<s_i, s_addresses, s_dirty, s_did>>
        ELSE /\ Done(p, {"sni_ready"})
             /\ s_dirty' = [s_dirty EXCEPT ![p] =
                               IF o.edited THEN @ \cup {"sni"} ELSE @]
             /\ IF ~o.ready
                THEN \* return False
                     /\ s_ret' = [s_ret EXCEPT ![p] = "False"]
                     /\ s_pc' = [s_pc EXCEPT ![p] = "returned"]
                     /\ UNCHANGED <<s_i, s_addresses>>
                ELSE /\ s_addresses' = [s_addresses EXCEPT ![p] =
                            Append(@, IF o.vhost = "_default_"
                                      THEN default_addr ELSE "addrs")]
                     /\ IF s_i[p] < Len(s_chall[p])
                        THEN /\ s_i' = [s_i EXCEPT ![p] = @ + 1]
                             /\ UNCHANGED s_pc
                        ELSE /\ s_i' = [s_i EXCEPT ![p] = 1]
                             /\ s_pc' = [s_pc EXCEPT ![p] = "extension"]
                     /\ UNCHANGED s_ret
    /\ UNCHANGED <<m_vars, w_vars, c_vars, d_vars, v_vars>>
    /\ UNCHANGED <<s_chall, s_cleanups, s_diskTemp, s_diskPerm,
                   s_certConf, s_certFiles, s_chalConf>>

\* the second loop, lines 254-255 and 129: generateExtension, which raises
\* when the key does not load or y does not decrypt, and updateCertConf,
\* which exits when CHOC_CERT_CONF holds no extension line
UpdateCertConf(p) ==
    /\ s_pc[p] = "extension"
    /\ \E decrypts \in BOOLEAN :
        IF ~decrypts \/ s_certConf = NoExt
        THEN /\ s_pc' = [s_pc EXCEPT ![p] = "aborted"]
             /\ UNCHANGED s_certConf
        ELSE /\ s_certConf' = <<p, s_chall[p][s_i[p]].nonce>>
             /\ s_pc' = [s_pc EXCEPT ![p] = "openssl"]
    /\ UNCHANGED <<m_vars, w_vars, c_vars, d_vars, v_vars>>
    /\ UNCHANGED <<s_chall, s_i, s_addresses, s_ret, s_dirty, s_did, s_cleanups,
                   s_diskTemp, s_diskPerm, s_certFiles, s_chalConf>>

\* createChallengeCert, line 130: openssl writes the certificate with the
\* extension CHOC_CERT_CONF holds, or fails; its exit code is not read
Openssl(p) ==
    /\ s_pc[p] = "openssl"
    /\ \E ok \in BOOLEAN :
        IF ok
        THEN /\ s_certFiles' = [s_certFiles EXCEPT
                                   ![s_chall[p][s_i[p]].nonce] = s_certConf]
             /\ Done(p, {"cert"})
        ELSE UNCHANGED <<s_certFiles, s_did>>
    /\ IF s_i[p] < Len(s_chall[p])
       THEN /\ s_i' = [s_i EXCEPT ![p] = @ + 1]
            /\ s_pc' = [s_pc EXCEPT ![p] = "extension"]
       ELSE /\ s_i' = [s_i EXCEPT ![p] = 1]
            /\ s_pc' = [s_pc EXCEPT ![p] = "modify"]
    /\ UNCHANGED <<m_vars, w_vars, c_vars, d_vars, v_vars>>
    /\ UNCHANGED <<s_chall, s_addresses, s_ret, s_dirty, s_cleanups,
                   s_diskTemp, s_diskPerm, s_certConf, s_chalConf>>

\* line 257 and modifyApacheConfig: tup is unbound after a loop over the
\* empty list (NameError); findApacheConfigFile answers a path or None;
\* checkForApacheConfInclude adds the Include directive when there is none
\* (TypeError on "/files" + None); the challenge configuration is written
\* with the nonce of the last tuple
ModifyApacheConfig(p) ==
    /\ s_pc[p] = "modify"
    /\ \E mainConfig \in {"httpd.conf", None} :
        IF s_chall[p] = <<>> \/ (~IncludeFound(p) /\ mainConfig = None)
        THEN /\ s_pc' = [s_pc EXCEPT ![p] = "aborted"]
             /\ UNCHANGED <<s_dirty, s_did, s_chalConf>>
        ELSE /\ s_dirty' = [s_dirty EXCEPT ![p] =
                               IF IncludeFound(p) THEN @ ELSE @ \cup {"include"}]
             /\ Done(p, IF IncludeFound(p) THEN {"conf"} ELSE {"include", "conf"})
             /\ s_chalConf' = [by |-> p,
                               nonce |-> s_chall[p][Len(s_chall[p])].nonce,
                               vhosts |-> s_addresses[p]]
             /\ s_pc' = [s_pc EXCEPT ![p] = "save_challenge"]
    /\ UNCHANGED <<m_vars, w_vars, c_vars, d_vars, v_vars>>
    /\ UNCHANGED <<s_chall, s_i, s_addresses, s_ret, s_cleanups,
                   s_diskTemp, s_diskPerm, s_certConf, s_certFiles>>

\* line 259: configurator.save("SNI Challenge", True)
SaveChallenge(p) ==
    /\ s_pc[p] = "save_challenge"
    /\ ConfigSaveReversible(p)
    /\ Done(p, {"save_challenge"})
    /\ s_pc' = [s_pc EXCEPT ![p] = "restart"]
    /\ UNCHANGED <<m_vars, w_vars, c_vars, d_vars, v_vars>>
    /\ UNCHANGED <<s_chall, s_i, s_addresses, s_ret, s_cleanups,
                   s_certConf, s_certFiles, s_chalConf>>

\* apache_restart(): the reload command is run and its exit code dropped
apache_restart(p, ok, failure) ==
    Done(p, IF ok THEN {} ELSE {failure})

\* line 260: apache_restart(), after which perform_sni_cert_challenge ends
\* and returns None
PerformRestart(p) ==
    /\ s_pc[p] = "restart"
    /\ \E ok \in BOOLEAN : apache_restart(p, ok, "perform_reload_failed")
    /\ s_ret' = [s_ret EXCEPT ![p] = "None"]
    /\ s_pc' = [s_pc EXCEPT ![p] = "returned"]
    /\ UNCHANGED <<m_vars, w_vars, c_vars, d_vars, v_vars>>
    /\ UNCHANGED <<s_chall, s_i, s_addresses, s_dirty, s_cleanups,
                   s_diskTemp, s_diskPerm, s_certConf, s_certFiles, s_chalConf>>

\* main, line 298, and cleanup, line 204: main drops what perform returned
\* and calls cleanup, which starts with configurator.revert_config()
CleanupRevert(p) ==
    /\ s_pc[p] = "returned"
    /\ s_cleanups' = [s_cleanups EXCEPT ![p] = @ + 1]
    /\ ConfigRevert(p)
    /\ Done(p, {"revert"})
    /\ s_pc' = [s_pc EXCEPT ![p] = "cleanup_restart"]
    /\ UNCHANGED <<m_vars, w_vars, c_vars, d_vars, v_vars>>
    /\ UNCHANGED <<s_chall, s_i, s_addresses, s_ret,
                   s_certConf, s_certFiles, s_chalConf>>

\* cleanup, line 205: apache_restart()
CleanupRestart(p) ==
    /\ s_pc[p] = "cleanup_restart"
    /\ \E ok \in BOOLEAN : apache_restart(p, ok, "cleanup_reload_failed")
    /\ s_pc' = [s_pc EXCEPT ![p] = "remove"]
    /\ s_i' = [s_i EXCEPT ![p] = 1]
    /\ UNCHANGED <<m_vars, w_vars, c_vars, d_vars, v_vars>>
    /\ UNCHANGED <<s_chall, s_addresses, s_ret, s_dirty, s_cleanups,
                   s_diskTemp, s_diskPerm, s_certConf, s_certFiles, s_chalConf>>

\* remove_files, lines 213-214: one round of the loop; os.remove raises
\* OSError when the certificate file does not exist
RemoveCert(p) ==
    /\ s_pc[p] = "remove"
    /\ s_i[p] <= Len(s_chall[p])
    /\ LET nonce == s_chall[p][s_i[p]].nonce
       IN IF s_certFiles[nonce] = NoExt
          THEN /\ s_pc' = [s_pc EXCEPT ![p] = "aborted"]
               /\ UNCHANGED <<s_i, s_certFiles>>
          ELSE /\ s_certFiles' = [s_certFiles EXCEPT ![nonce] = NoExt]
               /\ s_i' = [s_i EXCEPT ![p] = @ + 1]
               /\ UNCHANGED s_pc
    /\ UNCHANGED <<m_vars, w_vars, c_vars, d_vars, v_vars>>
    /\ UNCHANGED <<s_chall, s_addresses, s_ret, s_dirty, s_did, s_cleanups,
                   s_diskTemp, s_diskPerm, s_certConf, s_chalConf>>

\* remove_files, line 215: remove(APACHE_CHALLENGE_CONF), OSError when the
\* file does not exist; then cleanup and main end
RemoveConf(p) ==
    /\ s_pc[p] = "remove"
    /\ s_i[p] > Len(s_chall[p])
    /\ IF s_chalConf = NoConf
       THEN /\ s_pc' = [s_pc EXCEPT ![p] = "aborted"]
            /\ UNCHANGED s_chalConf
       ELSE /\ s_chalConf' = NoConf
            /\ s_pc' = [s_pc EXCEPT ![p] = "done"]
    /\ UNCHANGED <<m_vars, w_vars, c_vars, d_vars, v_vars>>
    /\ UNCHANGED <<s_chall, s_i, s_addresses, s_ret, s_dirty, s_did, s_cleanups,
                   s_diskTemp, s_diskPerm, s_certConf, s_certFiles>>

SniStep(p) ==
    \/ SaveBefore(p)
    \/ ChooseVhost(p)
    \/ UpdateCertConf(p)
    \/ Openssl(p)
    \/ ModifyApacheConfig(p)
    \/ SaveChallenge(p)
    \/ PerformRestart(p)
    \/ CleanupRevert(p)
    \/ CleanupRestart(p)
    \/ RemoveCert(p)
    \/ RemoveConf(p)

SniNext == \E p \in Procs : SniStep(p)

\* the state of the disk before any process runs: CHOC_CERT_CONF with or
\* without an extension line, no challenge file
SniDiskInit ==
    /\ s_diskTemp = {}
    /\ s_diskPerm = {}
    /\ s_certConf \in {NoExt, InitialExt}
    /\ s_certFiles = [n \in Nonces |-> NoExt]
    /\ s_chalConf = NoConf

\* the processes before their first statement; lists[p] is the challenge
\* list of process p and edits[p] what its configurator holds unsaved
SniProcsInit(running, lists, edits) ==
    /\ s_pc = [p \in Procs |-> IF p \in running THEN "save_before" ELSE "off"]
    /\ s_chall = lists
    /\ s_i = [p \in Procs |-> 1]
    /\ s_addresses = [p \in Procs |-> <<>>]
    /\ s_ret = [p \in Procs |-> "none"]
    /\ s_dirty = edits
    /\ s_did = [p \in Procs |-> {}]
    /\ s_cleanups = [p \in Procs |-> 0]

\* one process calls perform_sni_cert_challenge and cleanup on any list,
\* with a configurator that may hold unsaved edits of the user
SniInit ==
    /\ SniDiskInit
    /\ \E l \in SniLists, e \in {{}, {"user"}} :
          SniProcsInit({1}, [p \in Procs |-> IF p = 1 THEN l ELSE <<>>],
                       [p \in Procs |-> IF p = 1 THEN e ELSE {}])

\* two processes run main at the same time, each with main's challenges
\* and a fresh Configurator
SniConcurrentInit ==
    /\ SniDiskInit
    /\ SniProcsInit(Procs, [p \in Procs |-> MainChallenges], [p \in Procs |-> {}])

(***************************************************************************)
(* Part 3: Authenticator._test_mode_busy_wait(port) of manual.py: a loop   *)
(* that sleeps one second, opens a socket, tries to connect to the port    *)
(* on localhost and leaves when the connection is accepted.                *)
(***************************************************************************)
\* the most seconds of waiting the model follows
MaxWait == 12

\* the ports the function is called with
Ports == {80, 5002, 8080}

\* the call of _test_mode_busy_wait(port), just before its first iteration;
\* whatever should listen on the port may be up already or not
BusyWaitInit ==
    /\ w_pc = "waiting"
    /\ w_port \in Ports
    /\ w_elapsed = 0
    /\ w_listening \in BOOLEAN
    /\ w_socks = 0

\* one iteration of the while True loop: time.sleep(1), socket.socket(),
\* sock.connect(("localhost", port)); socket.error is passed over and the
\* loop goes round, success breaks out; sock.close() runs in both cases
BusyWaitIteration ==
    /\ w_pc = "waiting"
    /\ w_elapsed < MaxWait
    /\ w_elapsed' = w_elapsed + 1
    /\ LET opened == w_socks + 1
       IN /\ w_pc' = IF w_listening THEN "connected" ELSE "waiting"
          /\ w_socks' = opened - 1
    /\ UNCHANGED <<w_port, w_listening>>
    /\ UNCHANGED <<m_vars, s_vars, c_vars, d_vars, v_vars>>

\* the environment: the process meant to listen on the port comes up or
\* goes away while the function waits
PortChange ==
    /\ w_pc = "waiting"
    /\ w_listening' = ~w_listening
    /\ UNCHANGED <<w_pc, w_port, w_elapsed, w_socks>>
    /\ UNCHANGED <<m_vars, s_vars, c_vars, d_vars, v_vars>>

BusyWaitNext == BusyWaitIteration \/ PortChange

\* _test_mode_busy_wait is not running
BusyWaitOff ==
    /\ w_pc = "idle"
    /\ w_port = 0
    /\ w_elapsed = 0
    /\ w_listening = FALSE
    /\ w_socks = 0

(***************************************************************************)
(* Part 4: HelpfulArgumentParser.parse_args of cli.py.  argparse goes      *)
(* through the command line and calls the Action of each -d, -w and        *)
(* --webroot-map flag in the order the flags stand; parse_args then works  *)
(* on the result (lines 273-306).  The flags that only store a value       *)
(* (--staging, --dry-run, --server, --csr) are inputs of that last step.   *)
(***************************************************************************)
\* most -d, -w and --webroot-map flags on one command line
MaxFlags == 3

\* a domain as written by the user or in a CSR: its name in lower case and
\* whether it was written in lower case ("plain") or with capitals ("upper")
D(name, form) == [name |-> name, form |-> form]

RawDomains == {D(n, f) : n \in Domains, f \in {"plain", "upper"}}

\* le_util.enforce_domain_sanity: the normalized domain
enforce_domain_sanity(domain) == D(domain.name, "plain")

SaneDomains == {enforce_domain_sanity(d) : d \in RawDomains}

\* str.lower()
lower(domain) == D(domain.name, "plain")

Range(seq) == {seq[k] : k \in 1..Len(seq)}

\* webroot paths; NoPath stands for a key webroot_map does not hold
Paths == {"/w1", "/w2", "/m"}
NoPath == ""
EmptyMap == [d \in SaneDomains |-> NoPath]

\* dict.setdefault(key, value)
setdefault(map, key, value) ==
    IF map[key] = NoPath THEN [map EXCEPT ![key] = value] ELSE map

\* the part of the namespace the three Actions work on
Namespace(domains, webroot_path, webroot_map) ==
    [domains |-> domains, webroot_path |-> webroot_path,
     webroot_map |-> webroot_map]

\* the loop body of process_domain without the test for a known domain
process_domain_body_NoMembershipTest(ns, domain_raw, webroot_path) ==
    LET domain == enforce_domain_sanity(domain_raw)
    IN Namespace(Append(ns.domains, domain), ns.webroot_path,
                 IF webroot_path # <<>>
                 THEN setdefault(ns.webroot_map, domain,
                                 webroot_path[Len(webroot_path)])
                 ELSE ns.webroot_map)

\* the loop body of process_domain taking the first webroot path
process_domain_body_FirstPath(ns, domain_raw, webroot_path) ==
    LET domain == enforce_domain_sanity(domain_raw)
    IN IF domain \in Range(ns.domains)
       THEN ns
       ELSE Namespace(Append(ns.domains, domain), ns.webroot_path,
                      IF webroot_path # <<>>
                      THEN setdefault(ns.webroot_map, domain, webroot_path[1])
                      ELSE ns.webroot_map)

\* the loop body of process_domain (lines 879-885): sanitise, and for a
\* domain not yet in domains append it and setdefault its webroot
process_domain_body(ns, domain_raw, webroot_path) ==
    LET domain == enforce_domain_sanity(domain_raw)
    IN IF domain \in Range(ns.domains)
       THEN ns
       ELSE Namespace(Append(ns.domains, domain), ns.webroot_path,
                      IF webroot_path # <<>>
                      THEN setdefault(ns.webroot_map, domain,
                                      webroot_path[Len(webroot_path)])
                      ELSE ns.webroot_map)

RECURSIVE process_domain_loop(_, _, _, _)
\* for domain in (d.strip() for d in domain_arg.split(",")), from the k-th on
process_domain_loop(ns, domain_arg, webroot_path, k) ==
    IF k > Len(domain_arg)
    THEN ns
    ELSE process_domain_loop(process_domain_body(ns, domain_arg[k], webroot_path),
                             domain_arg, webroot_path, k + 1)

\* process_domain(args_or_config, domain_arg, webroot_path=None); domain_arg
\* is the comma-separated string as the list of its parts, and <<>> stands
\* for a webroot_path of None
process_domain(ns, domain_arg, webroot_path) ==
    process_domain_loop(ns, domain_arg,
                        IF webroot_path # <<>> THEN webroot_path
                        ELSE ns.webroot_path, 1)

\* the outcome of an Action: the namespace, the Action's own
\* domain_before_webroot and the exception raised (None when none)
Outcome(ns, dbw, error) == [ns |-> ns, dbw |-> dbw, error |-> error]

\* DomainFlagProcessor.__call__
DomainFlagProcessor(ns, dbw, domain_arg) ==
    Outcome(process_domain(ns, domain_arg, <<>>), dbw, None)

\* WebrootPathProcessor.__call__ that never refuses a further -w
WebrootPathProcessor_NeverRaises(ns, dbw, webroot) ==
    Outcome(Namespace(ns.domains, Append(ns.webroot_path, webroot),
                      IF ns.webroot_path = <<>>
                      THEN [d \in SaneDomains |->
                               IF d \in Range(ns.domains)
                               THEN setdefault(ns.webroot_map, d, webroot)[d]
                               ELSE ns.webroot_map[d]]
                      ELSE ns.webroot_map),
            dbw \/ (ns.webroot_path = <<>> /\ ns.domains # <<>>), None)

\* WebrootPathProcessor.__call__ (lines 845-863)
WebrootPathProcessor(ns, dbw, webroot) ==
    IF ns.webroot_path = <<>>
    THEN \* the first -w: the domains given so far get it, and are remembered
         Outcome(Namespace(ns.domains, <<webroot>>,
                           [d \in SaneDomains |->
                               IF d \in Range(ns.domains)
                               THEN setdefault(ns.webroot_map, d, webroot)[d]
                               ELSE ns.webroot_map[d]]),
                 IF ns.domains # <<>> THEN TRUE ELSE dbw, None)
    ELSE IF dbw
    THEN \* errors.Error("If you specify multiple webroot paths, one of
         \* them must precede all domain flags")
         Outcome(ns, dbw, "Error")
    ELSE Outcome(Namespace(ns.domains, Append(ns.webroot_path, webroot),
                           ns.webroot_map), dbw, None)

RECURSIVE WebrootMapLoop(_, _, _)
\* for domains, webroot_path in iteritems(webroot_map), from the k-th on
WebrootMapLoop(ns, entries, k) ==
    IF k > Len(entries)
    THEN ns
    ELSE WebrootMapLoop(process_domain(ns, entries[k].domains,
                                       <<entries[k].path>>), entries, k + 1)

\* WebrootMapProcessor.__call__; the argument is the decoded JSON object
\* as the list of its items
WebrootMapProcessor(ns, dbw, webroot_map_arg) ==
    Outcome(WebrootMapLoop(ns, webroot_map_arg, 1), dbw, None)

\* one item of a flag's argument: a list of domains and a path
Item(domains, path) == [domains |-> domains, path |-> path]

\* a flag of the command line and its argument; arguments have one shape:
\* -d has one item without a path, -w one item without domains
Flag(flag, arg) == [flag |-> flag, arg |-> arg]

\* the arguments of -d: "a.example" and "A.EXAMPLE,b.example"
DomainArgs ==
    {<<D("a.example", "plain")>>,
     <<D("a.example", "upper"), D("b.example", "plain")>>}

DomainFlags == {Flag("-d", <<Item(da, NoPath)>>) : da \in DomainArgs}

WebrootPathFlags == {Flag("-w", <<Item(<<>>, p)>>) : p \in {"/w1", "/w2"}}

\* the argument of --webroot-map: {"a.example": "/m"}
WebrootMapFlags ==
    {Flag("--webroot-map", <<Item(<<D("a.example", "plain")>>, "/m")>>)}

CliNamespace == Namespace(c_domains, c_webroot_path, c_webroot_map)

\* what an Action leaves behind: the namespace, and the end of the parse
\* when it raised
AfterAction(flag, out) ==
    /\ c_line' = Append(c_line, flag)
    /\ c_before' = CliNamespace
    /\ c_domains' = out.ns.domains
    /\ c_webroot_path' = out.ns.webroot_path
    /\ c_webroot_map' = out.ns.webroot_map
    /\ c_dbw' = out.dbw
    /\ c_error' = out.error
    /\ c_pc' = IF out.error = None THEN "flags" ELSE "refused"
    /\ UNCHANGED <<c_verb, c_detect, c_user, c_opts>>
    /\ UNCHANGED <<m_vars, s_vars, w_vars, d_vars, v_vars>>

\* argparse meets a -d flag
DomainFlag ==
    /\ c_pc = "flags"
    /\ Len(c_line) < MaxFlags
    /\ \E f \in DomainFlags :
          AfterAction(f, DomainFlagProcessor(CliNamespace, c_dbw, f.arg[1].domains))

\* argparse meets a -w flag
WebrootPathFlag ==
    /\ c_pc = "flags"
    /\ Len(c_line) < MaxFlags
    /\ \E f \in WebrootPathFlags :
          AfterAction(f, WebrootPathProcessor(CliNamespace, c_dbw, f.arg[1].path))

\* argparse meets a --webroot-map flag
WebrootMapFlag ==
    /\ c_pc = "flags"
    /\ Len(c_line) < MaxFlags
    /\ \E f \in WebrootMapFlags :
          AfterAction(f, WebrootMapProcessor(CliNamespace, c_dbw, f.arg))

\* Python values of the options, written as strings
PyTrue == "True"
PyFalse == "False"
Empty == ""
Zero == "0"

\* whether a Python value counts as true in a condition
Truthy(value) == value \notin {None, PyFalse, Empty, Zero}

\* constants.CLI_DEFAULTS["server"], constants.STAGING_URI, and a server
\* that is neither
DEFAULT_URI == "https://acme-v01.api.letsencrypt.org/directory"
STAGING_URI == "https://acme-staging.api.letsencrypt.org/directory"
OTHER_URI == "https://acme.example.org/directory"

\* flag_default(name), for the options of the model
flag_default(name) ==
    IF name = "server" THEN DEFAULT_URI
    ELSE IF name = "rsa_key_size" THEN "2048"
    ELSE None

\* a call add(topic, *flags, **kwargs): the names of the flag and the
\* keywords action, type, dest and default; NoDefault when default is not
\* among the keywords
NoDefault == "<no default>"
Kwargs(flags, dest, action, type, default) ==
    [flags |-> flags, dest |-> dest, action |-> action, type |-> type,
     default |-> default]

\* the calls of add in prepare_and_parse_args and _paths_parser, in order,
\* for the options of the model
AddCalls ==
    <<Kwargs({"--dry-run"}, "dry_run", "store_true", "str", NoDefault),
      Kwargs({"--register-unsafely-without-email"},
             "register_unsafely_without_email", "store_true", "str", NoDefault),
      Kwargs({"--agree-tos"}, "tos", "store_true", "str", NoDefault),
      Kwargs({"--account"}, "account", "store", "str", NoDefault),
      Kwargs({"--break-my-certs"}, "break_my_certs", "store_true", "str",
             NoDefault),
      Kwargs({"--rsa-key-size"}, "rsa_key_size", "store", "int",
             flag_default("rsa_key_size")),
      Kwargs({"--redirect"}, "redirect", "store_true", "str", None),
      Kwargs({"--no-redirect"}, "redirect", "store_false", "str", None),
      Kwargs({"--user-agent"}, "user_agent", "store", "str", None),
      Kwargs({"--csr"}, "csr", "store", "read_file", NoDefault),
      Kwargs({"--server"}, "server", "store", "str", flag_default("server")),
      Kwargs({"--test-cert", "--staging"}, "staging", "store_true", "str",
             NoDefault)>>

Dests == {AddCalls[k].dest : k \in 1..Len(AddCalls)}

\* the parser object itself, which add hands over as the first of *args
ParserObject == "<HelpfulArgumentParser>"

\* modify_arg_for_default_detection(*args, **kwargs) (lines 425-454): the
\* keywords with a default that is false in a condition, and the keys it
\* adds to self.store_false_vars
modify_arg_for_default_detection(args, kwargs) ==
    LET falsy == IF kwargs.default = NoDefault \/ Truthy(kwargs.default)
                 THEN IF kwargs.type = "int" \/ kwargs.action = "count"
                      THEN [kwargs EXCEPT !.default = Zero]
                      ELSE IF kwargs.type = "read_file" \/ "-c" \in args
                      THEN [kwargs EXCEPT !.default = Empty, !.type = "str"]
                      ELSE [kwargs EXCEPT !.default = Empty]
                 ELSE kwargs
    IN IF kwargs.action = "store_false"
       THEN [kwargs |-> [falsy EXCEPT !.default = None],
             store_false_vars |-> args]
       ELSE [kwargs |-> falsy, store_false_vars |-> {}]

\* HelpfulArgumentParser.add (lines 401-422): what reaches add_argument
add(kwargs, detect_defaults) ==
    IF detect_defaults
    THEN modify_arg_for_default_detection({ParserObject} \cup kwargs.flags, kwargs)
    ELSE [kwargs |-> kwargs, store_false_vars |-> {}]

\* self.store_false_vars after all the calls of add
store_false_vars(detect_defaults) ==
    UNION {add(AddCalls[k], detect_defaults).store_false_vars :
              k \in 1..Len(AddCalls)}

\* argparse: the default of an action whose keywords name none
ActionDefault(kwargs) ==
    IF kwargs.default # NoDefault THEN kwargs.default
    ELSE IF kwargs.action = "store_true" THEN PyFalse
    ELSE IF kwargs.action = "store_false" THEN PyTrue
    ELSE None

\* argparse: the value of a dest nothing on the command line sets, which
\* is the default of the first action added for the dest
DefaultOf(dest, detect_defaults) ==
    LET first == CHOOSE k \in 1..Len(AddCalls) :
                    /\ AddCalls[k].dest = dest
                    /\ \A j \in 1..(k - 1) : AddCalls[j].dest # dest
    IN ActionDefault(add(AddCalls[first], detect_defaults).kwargs)

\* a CSR file named by --csr: whether it parses as DER or PEM and the
\* domains it names; NoCsr when the flag is absent
Csr(given, parses, domains) ==
    [given |-> given, parses |-> parses, domains |-> domains]
NoCsr == Csr(FALSE, FALSE, <<>>)
CsrChoices ==
    {NoCsr, Csr(TRUE, FALSE, <<>>), Csr(TRUE, TRUE, <<>>),
     Csr(TRUE, TRUE, <<D("a.example", "plain")>>),
     Csr(TRUE, TRUE, <<D("a.example", "upper")>>)}

\* what the user set: for each dest a value, or Unset
Unset == "<unset>"
NothingSet == [dest \in Dests \ {"csr"} |-> Unset]

\* the defaults of all dests, with and without detect_defaults
Defaults ==
    [detect_defaults \in BOOLEAN |->
        [dest \in Dests |-> DefaultOf(dest, detect_defaults)]]

\* the namespace argparse returns for the options: what the user set, and
\* the default for the rest; the attribute agree_tos does not exist yet
ParsedOptions(user, csr, detect_defaults) ==
    [dest \in Dests \cup {"agree_tos"} |->
        IF dest = "csr" THEN csr
        ELSE IF dest = "agree_tos" THEN Unset
        ELSE IF user[dest] # Unset THEN user[dest]
        ELSE Defaults[detect_defaults][dest]]

\* how the rest of parse_args ends: the exception raised (None when it
\* returns) and parsed_args as it then is
Parsed(error, ns, opts) == [error |-> error, ns |-> ns, opts |-> opts]

RECURSIVE MergeWebrootMap(_, _)
\* lines 273-277: the keys of webroot_map not yet in domains are appended
MergeWebrootMap(domains, keys) ==
    IF keys \subseteq Range(domains)
    THEN domains
    ELSE LET domain == CHOOSE d \in keys : d \notin Range(domains)
         IN MergeWebrootMap(Append(domains, domain), keys)

RECURSIVE CsrProcessDomains(_, _, _)
\* lines 333-334: for d in domains: process_domain(parsed_args, d)
CsrProcessDomains(ns, domains, k) ==
    IF k > Len(domains)
    THEN ns
    ELSE CsrProcessDomains(process_domain(ns, <<domains[k]>>, <<>>), domains, k + 1)

\* handle_csr without the comparison of the two sets of domains
handle_csr_NoComparison(p, verb, detect_defaults) ==
    LET csr == p.opts["csr"]
        ns == CsrProcessDomains(p.ns, csr.domains, 1)
    IN IF verb # "certonly" THEN Parsed("Error", p.ns, p.opts)
       ELSE IF detect_defaults \/ ~csr.parses THEN Parsed("Error", p.ns, p.opts)
       ELSE IF \E d \in Range(csr.domains) : lower(d) # enforce_domain_sanity(d)
       THEN Parsed("ConfigurationError", ns, p.opts)
       ELSE IF csr.domains = <<>> THEN Parsed("Error", ns, p.opts)
       ELSE Parsed(None, ns, p.opts)

\* handle_csr(parsed_args) (lines 308-353).  With detect_defaults the
\* type of --csr is str, so parsed_args.csr is the path and its first two
\* characters are taken for file name and content, which do not parse
handle_csr(p, verb, detect_defaults) ==
    LET csr == p.opts["csr"]
        ns == CsrProcessDomains(p.ns, csr.domains, 1)
    IN IF verb # "certonly"
       THEN \* "Currently, a CSR file may only be specified when obtaining
            \* a new or replacement via the certonly command"
            Parsed("Error", p.ns, p.opts)
       ELSE IF detect_defaults \/ ~csr.parses
       THEN \* "Failed to parse CSR file"
            Parsed("Error", p.ns, p.opts)
       ELSE IF \E d \in Range(csr.domains) : lower(d) # enforce_domain_sanity(d)
       THEN \* "CSR domain ... needs to be sanitized"
            Parsed("ConfigurationError", ns, p.opts)
       ELSE IF csr.domains = <<>>
       THEN \* "Unfortunately, your CSR ... needs to have a SubjectAltName"
            Parsed("Error", ns, p.opts)
       ELSE IF Range(csr.domains) # Range(ns.domains)
       THEN \* "Inconsistent domain requests"
            Parsed("ConfigurationError", ns, p.opts)
       ELSE Parsed(None, ns, p.opts)

\* lines 279-287 without the assignment of the staging URI
StagingServer_KeepsServer(p, detect_defaults) ==
    IF Truthy(p.opts["staging"]) \/ Truthy(p.opts["dry_run"])
    THEN IF p.opts["server"] \notin {flag_default("server"), STAGING_URI}
            /\ ~detect_defaults
         THEN Parsed("Error", p.ns, p.opts)
         ELSE p
    ELSE p

\* lines 279-287: --staging and --dry-run against --server
StagingServer(p, detect_defaults) ==
    IF Truthy(p.opts["staging"]) \/ Truthy(p.opts["dry_run"])
    THEN IF p.opts["server"] \notin {flag_default("server"), STAGING_URI}
            /\ ~detect_defaults
         THEN \* "--server value conflicts with --staging / --dry-run"
              Parsed("Error", p.ns, p.opts)
         ELSE Parsed(None, p.ns, [p.opts EXCEPT !["server"] = STAGING_URI])
    ELSE p

\* lines 289-298 without the test of the verb
DryRun_AnyVerb(p, verb, accounts) ==
    IF Truthy(p.opts["dry_run"])
    THEN Parsed(None, p.ns, [p.opts EXCEPT !["break_my_certs"] = PyTrue,
                                           !["staging"] = PyTrue])
    ELSE p

\* lines 289-298: --dry-run; accounts tells whether the accounts directory
\* of the staging server holds an account
DryRun(p, verb, accounts) ==
    IF Truthy(p.opts["dry_run"])
    THEN IF verb \notin {"certonly", "renew"}
         THEN \* "--dry-run currently only works with the 'certonly' or
              \* 'renew' subcommands"
              Parsed("Error", p.ns, p.opts)
         ELSE LET test == [p.opts EXCEPT !["break_my_certs"] = PyTrue,
                                         !["staging"] = PyTrue]
              IN Parsed(None, p.ns,
                        IF accounts
                        THEN [test EXCEPT
                                 !["agree_tos"] = PyTrue,
                                 !["register_unsafely_without_email"] = PyTrue]
                        ELSE test)
    ELSE p

\* parse_args after self.parser.parse_args (lines 273-306)
parse_args(ns, opts, verb, detect_defaults, accounts) ==
    LET merged == Parsed(None,
                         Namespace(MergeWebrootMap(ns.domains,
                                       {d \in SaneDomains : ns.webroot_map[d] # NoPath}),
                                   ns.webroot_path, ns.webroot_map), opts)
        staged == StagingServer(merged, detect_defaults)
        dry == IF staged.error # None THEN staged ELSE DryRun(staged, verb, accounts)
    IN IF dry.error # None THEN dry
       ELSE IF dry.opts["csr"].given THEN handle_csr(dry, verb, detect_defaults)
       ELSE dry

Verbs == {"run", "certonly", "renew"}

\* a parser built by prepare_and_parse_args for any verb, with or without
\* detect_defaults, before argparse meets the first flag
CliInit ==
    /\ c_pc = "flags"
    /\ c_error = None
    /\ c_verb \in Verbs
    /\ c_detect \in BOOLEAN
    /\ c_line = <<>>
    /\ c_domains = <<>>
    /\ c_webroot_path = <<>>
    /\ c_webroot_map = EmptyMap
    /\ c_dbw = FALSE
    /\ c_user = NothingSet
    /\ c_opts = ParsedOptions(NothingSet, NoCsr, c_detect)
    /\ c_before = Namespace(<<>>, <<>>, EmptyMap)

\* the end of the command line: argparse returns and parse_args does the
\* rest, for any setting of --staging, --dry-run, --server and --csr
ParseArgs ==
    /\ c_pc = "flags"
    /\ \E staging \in {Unset, PyTrue}, dry_run \in {Unset, PyTrue},
          server \in {Unset, DEFAULT_URI, STAGING_URI, OTHER_URI},
          csr \in CsrChoices :
        \E accounts \in (IF dry_run = PyTrue THEN BOOLEAN ELSE {FALSE}) :
          LET user == [NothingSet EXCEPT !["staging"] = staging,
                                         !["dry_run"] = dry_run,
                                         !["server"] = server]
          IN \E end \in {parse_args(CliNamespace,
                                    ParsedOptions(user, csr, c_detect),
                                    c_verb, c_detect, accounts)} :
             /\ c_user' = user
             /\ c_opts' = end.opts
             /\ c_domains' = end.ns.domains
             /\ c_webroot_path' = end.ns.webroot_path
             /\ c_webroot_map' = end.ns.webroot_map
             /\ c_error' = end.error
             /\ c_pc' = IF end.error = None THEN "returned" ELSE "raised"
    /\ c_before' = CliNamespace
    /\ UNCHANGED <<c_verb, c_detect, c_line, c_dbw>>
    /\ UNCHANGED <<m_vars, s_vars, w_vars, d_vars, v_vars>>

CliNext == DomainFlag \/ WebrootPathFlag \/ WebrootMapFlag \/ ParseArgs

\* no parser is at work
CliOff ==
    /\ c_pc = "off"
    /\ c_error = None
    /\ c_verb = "run"
    /\ c_detect = FALSE
    /\ c_line = <<>>
    /\ c_domains = <<>>
    /\ c_webroot_path = <<>>
    /\ c_webroot_map = EmptyMap
    /\ c_dbw = FALSE
    /\ c_user = NothingSet
    /\ c_opts = ParsedOptions(NothingSet, NoCsr, FALSE)
    /\ c_before = Namespace(<<>>, <<>>, EmptyMap)

(***************************************************************************)
(* Part 5: set_by_cli(var) of cli.py.  On its first call it builds the     *)
(* detector: the command line parsed once more by a parser made with       *)
(* detect_defaults=True, whose defaults are all false in a condition.      *)
(***************************************************************************)
\* reconstructed_args: the verb, what the command line sets of the
\* options, and the CSR file of --csr
Args(verb, set, csr) == [verb |-> verb, set |-> set, csr |-> csr]

\* the values the user may give the options of the model
UserValues ==
    [dest \in Dests \ {"csr"} |->
        IF dest \in {"dry_run", "staging"} THEN {Unset, PyTrue}
        ELSE IF dest = "account" THEN {Unset, "account-id"}
        ELSE IF dest = "rsa_key_size" THEN {Unset, "2048"}
        ELSE IF dest = "redirect" THEN {Unset, PyTrue, PyFalse}
        ELSE IF dest = "user_agent" THEN {Unset, Empty, "agent"}
        ELSE IF dest = "server" THEN {Unset, DEFAULT_URI, OTHER_URI}
        ELSE {Unset}]

\* a namespace without domains and webroots
NoDomains == Namespace(<<>>, <<>>, EmptyMap)

\* all the ways the user may set the options of the model
UserSettings ==
    {[NothingSet EXCEPT !["dry_run"] = dry_run, !["staging"] = staging,
                        !["account"] = account, !["rsa_key_size"] = rsa_key_size,
                        !["redirect"] = redirect, !["user_agent"] = user_agent,
                        !["server"] = server] :
        dry_run \in UserValues["dry_run"], staging \in UserValues["staging"],
        account \in UserValues["account"],
        rsa_key_size \in UserValues["rsa_key_size"],
        redirect \in UserValues["redirect"],
        user_agent \in UserValues["user_agent"],
        server \in UserValues["server"]}

\* the command lines parse_args accepts when main parses them
AcceptedArgs ==
    {a \in {Args(v, s, c) :
               v \in Verbs, s \in UserSettings,
               c \in {NoCsr, Csr(TRUE, TRUE, <<D("a.example", "plain")>>)}} :
        parse_args(NoDomains, ParsedOptions(a.set, a.csr, FALSE),
                   a.verb, FALSE, FALSE).error = None}

\* set_by_cli.detector; built is FALSE while it is None
Detector(built, opts, keys) ==
    [built |-> built, opts |-> opts, store_false_vars |-> keys]
NoDetector == Detector(FALSE, ParsedOptions(NothingSet, NoCsr, TRUE), {})

\* a call of set_by_cli and its result: PyTrue, PyFalse, or "raised"
SetByCliCall(var, result) == [var |-> var, result |-> result]

\* main has parsed an accepted command line; set_by_cli was not called yet
SetByCliInit ==
    /\ d_args \in AcceptedArgs
    /\ d_detector = NoDetector
    /\ d_last = SetByCliCall("none", "none")

\* the names set_by_cli is asked about: the dests, and a name the detector
\* has no attribute for
Vars == (Dests \ {"csr"}) \cup {"no_such_attribute"}

\* lines 125-143: the answer of set_by_cli(var) once the detector is there
set_by_cli(detector, var) ==
    IF var \notin DOMAIN detector.opts \/ var = "agree_tos"
    THEN \* AttributeError: "Missing default analysis"
         PyFalse
    ELSE LET change_detected == detector.opts[var]
         IN IF Truthy(change_detected)
            THEN PyTrue
            ELSE IF /\ var = "account"
                    /\ \/ Truthy(detector.opts["server"])
                       \/ Truthy(detector.opts["dry_run"])
                       \/ Truthy(detector.opts["staging"])
            THEN PyTrue
            ELSE IF var \in detector.store_false_vars /\ change_detected # None
            THEN PyTrue
            ELSE PyFalse

\* a call set_by_cli(var).  The first call builds the detector with
\* prepare_and_parse_args(plugins, reconstructed_args, detect_defaults=True),
\* which may raise; accounts is what parse_args finds in the accounts
\* directory
SetByCli ==
    /\ \E var \in Vars :
        IF d_detector.built
        THEN /\ d_last' = SetByCliCall(var, set_by_cli(d_detector, var))
             /\ UNCHANGED d_detector
        ELSE \E accounts \in (IF d_args.set["dry_run"] = PyTrue
                              THEN BOOLEAN ELSE {FALSE}) :
               \E end \in {parse_args(NoDomains,
                                      ParsedOptions(d_args.set, d_args.csr, TRUE),
                                      d_args.verb, TRUE, accounts)} :
                 IF end.error # None
                 THEN /\ d_last' = SetByCliCall(var, "raised")
                      /\ UNCHANGED d_detector
                 ELSE \E detector \in {Detector(TRUE, end.opts,
                                                store_false_vars(TRUE))} :
                        /\ d_detector' = detector
                        /\ d_last' = SetByCliCall(var, set_by_cli(detector, var))
    /\ UNCHANGED d_args
    /\ UNCHANGED <<m_vars, s_vars, w_vars, c_vars, v_vars>>

SetByCliNext == SetByCli

\* set_by_cli has not been called
SetByCliOff ==
    /\ d_args = Args("run", NothingSet, NoCsr)
    /\ d_detector = NoDetector
    /\ d_last = SetByCliCall("none", "none")

(***************************************************************************)
(* Part 6: HelpfulArgumentParser.determine_verb of cli.py, which           *)
(* __init__ calls on self.args before any flag is parsed.                  *)
(***************************************************************************)
\* most tokens on one command line
MaxArgs == 3

\* the keys of self.VERBS: the subcommands of the usage text and the two
\* aliases determine_verb maps
VERBS ==
    {"run", "certonly", "install", "renew", "revoke", "rollback",
     "config_changes", "plugins", "auth", "everything"}

\* the tokens of the command lines of the model: verbs, aliases, the help
\* flags, a flag and its argument
ArgTokens ==
    {"certonly", "renew", "auth", "everything", "-h", "--help", "-d",
     "a.example"}

\* the command lines of the model
ArgLists == ListsUpTo(ArgTokens, MaxArgs)

\* the list without its i-th element: list.pop(i)
pop(args, i) == SubSeq(args, 1, i - 1) \o SubSeq(args, i + 1, Len(args))

\* self.verb and self.args as determine_verb leaves them
Determined(verb, args) == [verb |-> verb, args |-> args]

\* the loop of determine_verb that leaves the token of the verb in place
determine_verb_loop_KeepsToken(args, i) ==
    IF \E k \in i..Len(args) : args[k] \in VERBS
    THEN LET k == CHOOSE k \in i..Len(args) :
                     /\ args[k] \in VERBS
                     /\ \A j \in i..(k - 1) : args[j] \notin VERBS
         IN Determined(IF args[k] = "auth" THEN "certonly"
                       ELSE IF args[k] = "everything" THEN "run"
                       ELSE args[k], args)
    ELSE Determined("run", args)

RECURSIVE determine_verb_loop(_, _)
\* for i, token in enumerate(self.args), from the i-th token on (lines
\* 367-378): the first token in self.VERBS is the verb, "auth" standing
\* for certonly and "everything" for run, and is popped; "run" without one
determine_verb_loop(args, i) ==
    IF i > Len(args)
    THEN Determined("run", args)
    ELSE IF args[i] \in VERBS
    THEN LET token == args[i]
             verb == IF token = "auth" THEN "certonly"
                     ELSE IF token = "everything" THEN "run"
                     ELSE token
         IN Determined(verb, pop(args, i))
    ELSE determine_verb_loop(args, i + 1)

\* determine_verb (lines 356-378)
determine_verb(args) ==
    IF "-h" \in Range(args) \/ "--help" \in Range(args)
    THEN Determined("help", args)
    ELSE determine_verb_loop(args, 1)

\* self.verb before determine_verb has run
NoVerb == "<no verb>"

\* __init__ has stored args in self.args
VerbInit ==
    /\ v_given \in ArgLists
    /\ v_args = v_given
    /\ v_verb = NoVerb

\* self.determine_verb(), called once by __init__
DetermineVerb ==
    /\ v_verb = NoVerb
    /\ \E end \in {determine_verb(v_args)} :
          /\ v_verb' = end.verb
          /\ v_args' = end.args
    /\ UNCHANGED v_given
    /\ UNCHANGED <<m_vars, s_vars, w_vars, c_vars, d_vars>>

VerbNext == DetermineVerb

\* no parser is being built
VerbOff ==
    /\ v_given = <<>>
    /\ v_args = <<>>
    /\ v_verb = NoVerb

\* the SNI driver is not running
SniOff ==
    /\ SniDiskInit
    /\ s_certConf = InitialExt
    /\ SniProcsInit({}, [p \in Procs |-> <<>>], [p \in Procs |-> {}])

\* the manual Authenticator is not in use
ManualOff ==
    /\ m_testMode = FALSE
    /\ m_noninteractive = FALSE
    /\ m_httpd = None
    /\ m_rootExists = FALSE
    /\ m_files = [t \in Tokens |-> NoFile]
    /\ m_last = NoCall

vars == <<m_vars, s_vars, w_vars, c_vars, d_vars, v_vars>>

InitManual == ManualInit /\ SniOff /\ BusyWaitOff /\ CliOff /\ SetByCliOff /\ VerbOff

InitSni == SniInit /\ ManualOff /\ BusyWaitOff /\ CliOff /\ SetByCliOff /\ VerbOff

InitSniConcurrent ==
    SniConcurrentInit /\ ManualOff /\ BusyWaitOff /\ CliOff /\ SetByCliOff
        /\ VerbOff

InitBusyWait == BusyWaitInit /\ ManualOff /\ SniOff /\ CliOff /\ SetByCliOff /\ VerbOff

InitCli == CliInit /\ ManualOff /\ SniOff /\ BusyWaitOff /\ SetByCliOff /\ VerbOff

InitSetByCli == SetByCliInit /\ ManualOff /\ SniOff /\ BusyWaitOff /\ CliOff /\ VerbOff

InitVerb ==
    VerbInit /\ ManualOff /\ SniOff /\ BusyWaitOff /\ CliOff /\ SetByCliOff

\* the manual Authenticator under any sequence of prepare, perform and
\* cleanup calls
SpecManual == InitManual /\ [][ManualNext]_vars

\* one run of perform_sni_cert_challenge and cleanup
SpecSni == InitSni /\ [][SniNext]_vars

\* two concurrent runs of main
SpecSniConcurrent == InitSniConcurrent /\ [][SniNext]_vars

\* one call of _test_mode_busy_wait
SpecBusyWait == InitBusyWait /\ [][BusyWaitNext]_vars

\* one run of parse_args, on any command line
SpecCli == InitCli /\ [][CliNext]_vars

\* any sequence of calls of set_by_cli after main has parsed a command line
SpecSetByCli == InitSetByCli /\ [][SetByCliNext]_vars

\* determine_verb on any command line
SpecVerb == InitVerb /\ [][VerbNext]_vars

(***************************************************************************)
(* The claims.                                                             *)
(***************************************************************************)

\* C1 (as claimed): a call of the manual Authenticator's cleanup never
\* raises, in test mode or not, before or after perform, however often it
\* is called.
C1_CleanupNeverRaises ==
    m_last.op = "cleanup" => m_last.result = "returned"

\* perform_sni_cert_challenge and all that main does after it have ended
Ended(p) == s_pc[p] \in {"done", "aborted"}

\* C2 (as claimed): when a run of main on its challenge batch has ended,
\* cleanup was called exactly once for the batch, whether perform succeeded,
\* returned False or was aborted by an exception.
C2_CleanupExactlyOnce ==
    \A p \in Procs :
        (Ended(p) /\ s_chall[p] = MainChallenges) => s_cleanups[p] = 1

\* C3 (as claimed): once cleanup has been called (and has returned) for a
\* list of challenges, no validation file that perform wrote for one of them
\* is left under ~/.well-known/acme-challenge/.
C3_ValidationFilesRemoved ==
    (m_last.op = "cleanup" /\ m_last.result = "returned")
        => \A k \in 1..Len(m_last.achalls) :
               m_files[TargetName(m_last.achalls[k])] = NoFile

\* C4 (as claimed): after a perform_sni_cert_challenge that returned
\* normally and the cleanup of the same list, no temporary SNI artifact is
\* left: no challenge certificate of a nonce of the list, no challenge
\* configuration file, and no configurator edit in memory or in a
\* reversible checkpoint.
C4_NoArtifactsAfterCleanup ==
    \A p \in Procs :
        (s_ret[p] = "None" /\ s_cleanups[p] > 0 /\ Ended(p))
            => /\ \A k \in 1..Len(s_chall[p]) :
                      s_certFiles[s_chall[p][k].nonce] = NoExt
               /\ s_chalConf = NoConf
               /\ s_dirty[p] = {}
               /\ s_diskTemp = {}

\* the challenge-serving changes of perform_sni_cert_challenge
ServingChanges == {"sni_ready", "cert", "include", "conf"}

\* C5: in perform_sni_cert_challenge the save "Before performing
\* sni_challenge" comes before every challenge-serving change: whenever a
\* process has called make_server_sni_ready, created a challenge
\* certificate, added the Include directive or written the challenge
\* configuration file, or such a change shows in its files or its
\* configurator, it has made that save.
C5_SaveBeforeAnyChange ==
    \A p \in Procs :
        (\/ s_did[p] \cap ServingChanges # {}
         \/ s_dirty[p] \cap {"sni", "include"} # {}
         \/ s_chalConf.by = p
         \/ \E n \in Nonces : s_certFiles[n][1] = p)
            => "save_before" \in s_did[p]

\* C5's case: a process has made every kind of challenge-serving change
C5_Witness ==
    \E p \in Procs : ServingChanges \subseteq s_did[p] /\ s_chalConf.by = p

\* C6 (as claimed): when perform_sni_cert_challenge returns, with None or
\* with False, no configuration edit it made through the configurator is
\* left neither saved nor reverted.
C6_NoUnsavedEditsAtReturn ==
    \A p \in Procs : s_pc[p] = "returned" => s_dirty[p] = {}

\* C7 (as claimed): perform_sni_cert_challenge does not return normally and
\* cleanup does not complete when the reload they asked for failed.
C7_ReloadFailureSurfaced ==
    \A p \in Procs :
        /\ s_ret[p] = "None" => "perform_reload_failed" \notin s_did[p]
        /\ s_pc[p] = "done" => "cleanup_reload_failed" \notin s_did[p]

\* the statements between the write of the challenge configuration file and
\* its removal by the same process
HoldsChalConf(p) ==
    s_pc[p] \in {"save_challenge", "restart", "returned", "cleanup_restart", "remove"}
    /\ "conf" \in s_did[p]

\* C8 (as claimed): two concurrent runs do not interleave: the certificate
\* configuration a process rewrote is still its own when openssl reads it,
\* and the challenge configuration file a process wrote is neither
\* overwritten nor removed by the other before the process removes it.
C8_NoInterference ==
    \A p \in Procs :
        /\ s_pc[p] = "openssl" => s_certConf[1] = p
        /\ HoldsChalConf(p) => s_chalConf.by = p

\* C9: whenever the manual Authenticator's perform returns, it returns one
\* response per challenge of its input, in the order of the input: the k-th
\* response is the key authorization of the k-th challenge's token.
C9_OneResponsePerChallengeInOrder ==
    (m_last.op = "perform" /\ m_last.result = "returned")
        => /\ Len(m_last.responses) = Len(m_last.achalls)
           /\ \A k \in 1..Len(m_last.achalls) :
                  m_last.responses[k].key_authorization
                      = <<m_last.achalls[k].token, ".", Thumbprint>>

\* C9's case: perform has returned for a list of two different challenges
C9_Witness ==
    /\ m_last.op = "perform" /\ m_last.result = "returned"
    /\ Len(m_last.achalls) = 2
    /\ m_last.achalls[1] # m_last.achalls[2]

\* C10: a failed self-verification does not fail the challenge: for every
\* challenge of a perform call whose self-verification failed, perform has
\* logged the warning and built the response it builds for a challenge
\* whose self-verification passes, the key authorization of the token; and
\* no perform call is ended by a failed self-verification.
C10_FailedSelfVerifyOnlyWarns ==
    m_last.op = "perform"
        => /\ \A k \in 1..Len(m_last.achalls) :
                  m_last.env[k] = "verify_fail"
                      => /\ k <= Len(m_last.responses)
                         /\ m_last.warnings[k]
                         /\ m_last.responses[k].key_authorization
                                = <<m_last.achalls[k].token, ".", Thumbprint>>
           /\ \A k \in 1..Len(m_last.responses) :
                  m_last.warnings[k] <=> (m_last.env[k] = "verify_fail")
           /\ m_last.result = "raised"
                  => \E k \in 1..Len(m_last.achalls) : m_last.env[k] = "io_error"

\* C10's case: perform has returned although a self-verification failed
C10_Witness ==
    /\ m_last.op = "perform" /\ m_last.result = "returned"
    /\ \E k \in 1..Len(m_last.achalls) : m_last.env[k] = "verify_fail"

\* C11: the wait of _test_mode_busy_wait is bounded: once MaxWait seconds
\* have gone by since the call, the function is no longer inside its loop,
\* whether or not the port ever accepted a connection.
C11_BusyWaitBounded ==
    w_pc = "waiting" => w_elapsed < MaxWait

\* parse_args was done with the command line and called handle_csr: the
\* checks of --staging and --dry-run passed and --csr was given
HandleCsrCalled ==
    /\ c_pc \in {"returned", "raised"}
    /\ c_opts["csr"].given
    /\ ~(/\ PyTrue \in {c_user["staging"], c_user["dry_run"]}
         /\ c_user["server"] = OTHER_URI
         /\ ~c_detect)
    /\ ~(c_user["dry_run"] = PyTrue /\ c_verb \notin {"certonly", "renew"})

\* handle_csr got as far as the domains of the CSR: the verb is certonly,
\* the CSR file parses and names a domain
CsrRead ==
    /\ HandleCsrCalled
    /\ c_verb = "certonly"
    /\ ~c_detect
    /\ c_opts["csr"].parses
    /\ c_opts["csr"].domains # <<>>

\* the domains requested on the command line, as parsed_args.domains held
\* them when handle_csr was called
Requested == Range(c_before.domains)

C13_NoDuplicateDomain ==
    Cardinality(Range(c_domains)) = Len(c_domains)

\* the domains a flag names, normalized
FlagDomains(f) ==
    {enforce_domain_sanity(d) :
        d \in UNION {Range(f.arg[i].domains) : i \in 1..Len(f.arg)}}

\* C13's case: parse_args has returned for a command line on which two
\* flags name the same domain and --csr names it once more
C13_Witness ==
    /\ c_pc = "returned"
    /\ c_opts["csr"].given
    /\ \E j, k \in 1..Len(c_line) :
          /\ j < k
          /\ FlagDomains(c_line[j]) \cap FlagDomains(c_line[k])
                 \cap Range(c_opts["csr"].domains) # {}

\* C14: prepare raises PluginError exactly when the run is non-interactive
\* and test-mode is off; with any other setting of the two it returns.
C14_PrepareRaisesExactlyNoninteractive ==
    m_last.op = "prepare"
        => (m_last.result = "raised" <=> (m_noninteractive /\ ~m_testMode))

\* C14's case: prepare has raised
C14_Witness ==
    m_last.op = "prepare" /\ m_last.result = "raised"

\* the paths the --webroot-map flags of the command line give a domain
MapPaths(d) ==
    {p \in Paths :
        \E k \in 1..Len(c_line) :
           /\ c_line[k].flag = "--webroot-map"
           /\ \E i \in 1..Len(c_line[k].arg) :
                 /\ c_line[k].arg[i].path = p
                 /\ d \in {enforce_domain_sanity(x) :
                             x \in Range(c_line[k].arg[i].domains)}}

\* C15: --webroot-map takes precedence over -w and -d: a domain that a
\* --webroot-map flag of the command line lists is mapped in webroot_map to
\* a path --webroot-map gives it, in whatever order the flags stand.
C15_WebrootMapPrecedence ==
    c_pc \in {"flags", "returned"}
        => \A d \in SaneDomains :
              MapPaths(d) # {} => c_webroot_map[d] \in MapPaths(d)

\* the places of the -w flags on the command line
WebrootPathPlaces == {k \in 1..Len(c_line) : c_line[k].flag = "-w"}

\* the largest number of a non-empty set of numbers
Last(places) == CHOOSE k \in places : \A j \in places : j <= k

\* the command line has no flag but -w and -d
OnlyPathsAndDomains == \A k \in 1..Len(c_line) : c_line[k].flag \in {"-w", "-d"}

\* C16: on a command line of -w and -d flags whose first -w precedes
\* every -d, each domain is mapped to the path of the last -w before the
\* first -d that names the domain; on one where -d flags precede the only
\* -w, the domains of those flags are mapped to the path of that -w.
C16_DomainMappedToPrecedingWebroot ==
    OnlyPathsAndDomains
        => /\ (\A k \in 1..Len(c_line) :
                  c_line[k].flag = "-d" => \E j \in WebrootPathPlaces : j < k)
              => \A d \in SaneDomains, k \in 1..Len(c_line) :
                    (/\ c_line[k].flag = "-d"
                     /\ d \in FlagDomains(c_line[k])
                     /\ \A j \in 1..(k - 1) : d \notin FlagDomains(c_line[j]))
                        => c_webroot_map[d]
                              = c_line[Last({j \in WebrootPathPlaces : j < k})].arg[1].path
           /\ Cardinality(WebrootPathPlaces) = 1
              => \A k \in 1..(Last(WebrootPathPlaces) - 1) :
                    \A d \in FlagDomains(c_line[k]) :
                       c_webroot_map[d] = c_line[Last(WebrootPathPlaces)].arg[1].path

\* C16's case: two -w flags with different paths, then a -d flag
C16_Witness ==
    /\ Len(c_line) = 3
    /\ c_line[1].flag = "-w" /\ c_line[2].flag = "-w" /\ c_line[3].flag = "-d"
    /\ c_line[1].arg[1].path # c_line[2].arg[1].path

\* the last flag argparse met is a -w that is not the first -w, and nothing
\* has happened since
FurtherWebrootPath ==
    /\ c_pc \in {"flags", "refused"}
    /\ Len(c_line) > 0
    /\ c_line[Len(c_line)].flag = "-w"
    /\ Cardinality(WebrootPathPlaces) > 1

\* the first place of the -w flags on the command line
FirstWebrootPath ==
    CHOOSE k \in WebrootPathPlaces : \A j \in WebrootPathPlaces : k <= j

\* C17, as amended: a second or later -w raises Error exactly when a
\* domain was given before the first -w, by -d or by --webroot-map; on
\* that error webroot_path and webroot_map are as they were before the
\* flag.
C17_FurtherWebrootRefused ==
    FurtherWebrootPath
        => /\ (c_pc = "refused" /\ c_error = "Error")
                  <=> \E k \in 1..(FirstWebrootPath - 1) :
                         c_line[k].flag \in {"-d", "--webroot-map"}
           /\ c_pc = "refused"
                  => /\ c_webroot_path = c_before.webroot_path
                     /\ c_webroot_map = c_before.webroot_map

\* C17's case: a second -w has been refused
C17_Witness ==
    FurtherWebrootPath /\ c_pc = "refused"

\* C17 as stated: a second or later -w raises Error exactly when a -d flag
\* stands before the first -w.
C17_RefusedOnlyAfterDomainFlag ==
    FurtherWebrootPath
        => ((c_pc = "refused" /\ c_error = "Error")
               <=> \E k \in 1..(FirstWebrootPath - 1) : c_line[k].flag = "-d")

\* set_by_cli has returned an answer about an option of the command line
Answered ==
    /\ d_last.var \in Dests \ {"csr"}
    /\ d_last.result \in {PyTrue, PyFalse}

\* C18: set_by_cli(var) returns True exactly when the user set the
\* variable, to its default value or to any other, and False when the
\* variable has its value from the default.  Stated for the command lines
\* without --staging and --dry-run, under which parse_args rewrites
\* options of the detector, and for the variables other than account,
\* which set_by_cli treats apart, and redirect, which C19 is about.
C18_TrueExactlyWhenUserSet ==
    (/\ Answered
     /\ d_last.var \notin {"account", "redirect"}
     /\ d_args.set["staging"] = Unset
     /\ d_args.set["dry_run"] = Unset)
        => (d_last.result = PyTrue <=> d_args.set[d_last.var] # Unset)

\* C19: for redirect, which the store_false flag --no-redirect sets and
\* whose default in the detector is None, set_by_cli returns True when the
\* user passed --no-redirect, the detector holding False, and False when
\* the user passed neither --no-redirect nor --redirect, the detector
\* holding None.
C19_StoreFalseFlagDetected ==
    (Answered /\ d_last.var = "redirect")
        => /\ d_args.set["redirect"] = PyFalse
                 => /\ d_detector.opts["redirect"] = PyFalse
                    /\ d_last.result = PyTrue
           /\ d_args.set["redirect"] = Unset
                 => /\ d_detector.opts["redirect"] = None
                    /\ d_last.result = PyFalse

\* C20: whenever parse_args returns with staging or dry_run set, server is
\* the staging URI; and without detect_defaults parse_args raises Error
\* when --staging or --dry-run stands with a --server that is neither the
\* default server nor the staging URI.
C20_StagingMeansStagingServer ==
    /\ (/\ c_pc = "returned"
        /\ Truthy(c_opts["staging"]) \/ Truthy(c_opts["dry_run"]))
          => c_opts["server"] = STAGING_URI
    /\ (/\ c_pc \in {"returned", "raised"}
        /\ ~c_detect
        /\ PyTrue \in {c_user["staging"], c_user["dry_run"]}
        /\ c_user["server"] \notin {Unset, flag_default("server"), STAGING_URI})
          => c_pc = "raised" /\ c_error = "Error"

\* C20's case: with detect_defaults, parse_args has returned for --staging
\* together with a --server that is neither default nor staging URI
C20_Witness ==
    /\ c_pc = "returned"
    /\ c_detect
    /\ c_user["staging"] = PyTrue
    /\ c_user["server"] = OTHER_URI

VerbPlaces == {k \in 1..Len(v_given) : v_given[k] \in VERBS}

\* C22: after determine_verb, on a command line with -h or --help the
\* verb is help and the arguments are unchanged; otherwise, without a
\* token that is a known verb, the verb is run and the arguments are
\* unchanged; otherwise the verb is the first such token, certonly for
\* auth and run for everything, and the arguments are the command line
\* without that one token, the other tokens in their order.
C22_VerbIsFirstVerbToken ==
    v_verb # NoVerb
        => IF \E k \in 1..Len(v_given) : v_given[k] \in {"-h", "--help"}
           THEN v_verb = "help" /\ v_args = v_given
           ELSE IF VerbPlaces = {}
           THEN v_verb = "run" /\ v_args = v_given
           ELSE \E i \in VerbPlaces :
                  /\ \A j \in VerbPlaces : i <= j
                  /\ v_verb = (CASE v_given[i] = "auth" -> "certonly"
                                 [] v_given[i] = "everything" -> "run"
                                 [] OTHER -> v_given[i])
                  /\ Len(v_args) = Len(v_given) - 1
                  /\ \A k \in 1..Len(v_args) :
                        v_args[k] = IF k < i THEN v_given[k] ELSE v_given[k + 1]

\* C22's case: determine_verb has taken the alias auth from between two
\* other tokens, a later verb token staying in the arguments
C22_Witness ==
    /\ v_verb = "certonly"
    /\ v_given = <<"-d", "auth", "renew">>
    /\ v_args = <<"-d", "renew">>

\* C23: when perform_sni_cert_challenge has returned False, the cleanup
\* that follows runs to its end: once main has ended, cleanup has reverted
\* the configuration and reloaded the server and has not been ended by an
\* exception.
C23_CleanupCompletesAfterFailedPerform ==
    \A p \in Procs :
        (s_ret[p] = "False" /\ Ended(p))
            => /\ s_cleanups[p] = 1
               /\ "revert" \in s_did[p]
               /\ s_pc[p] = "done"

\* C24: handle_csr accepts a CSR whose domains match the requested domains
\* after normalization: when every CSR domain, lower-cased, equals its
\* sanitised form and the set of sanitised CSR domains is the set of
\* requested domains, parse_args returns without an error, whatever the
\* case the CSR writes its domains in.
C24_NormalizedCsrAccepted ==
    (/\ CsrRead
     /\ \A d \in Range(c_opts["csr"].domains) :
            lower(d) = enforce_domain_sanity(d)
     /\ {enforce_domain_sanity(d) : d \in Range(c_opts["csr"].domains)}
            = Requested)
        => c_pc = "returned"

====
